---- MODULE Spec2Model ----
(***************************************************************************)
(* A model of rash's one-shot indexer (rash/index.py: index_run) and of    *)
(* its interactive finder (rash/interactive_search.py: RashFinder.find).   *)
(*                                                                         *)
(* Strings are sequences of one-character strings, so that                 *)
(* str.endswith, os.path.join, shlex.split, re.sub and str.strip are       *)
(* computed on the characters, as the code computes them.                  *)
(*                                                                         *)
(* Spec      the indexer: sweeps run one after the other over a staging    *)
(*           tree, while a shell hook may finish writing a record file.    *)
(* SpecFind  the finder: one call of find per keystroke.                   *)
(***************************************************************************)
EXTENDS Integers, Sequences, FiniteSets, TLC

VARIABLES
    \* ---- the world the indexer works on
    fs,               \* staging tree: entry -> content of the file, or Absent
    db,               \* Index Store: the rows, in insertion order
    written,          \* entries a shell hook finished writing since Init
    \* ---- one index_run call per run id
    pc,               \* position of the call in index_run
    keep_json,        \* argument keep_json
    cd_arg,           \* argument check_duplicate, as the caller passed it
    check_duplicate,  \* local check_duplicate, after index.py:16-17
    dirs,             \* directories os.walk has still to visit
    root,             \* directory being visited (root of index.py:22)
    files,            \* files of that directory still to iterate
    cur,              \* entry of json_path (index.py:24)
    error,            \* exception that ended the call, NoError if none
    ret,              \* value the call returned, NotReturned before
    db_start,         \* rows of the Index Store when the call opened it
    \* ---- history of the calls index_run made
    calls,            \* db.import_json calls:  [run, entry, check_duplicate]
    returned,         \* import_json calls that returned: [run, entry]
    removed,          \* os.remove calls that deleted a file: [run, entry]
    \* ---- the interactive finder
    query,            \* the query string typed so far
    found,            \* outcome of the last RashFinder.find call
    \* ---- the other entry points
    staged,           \* the staging tree as the first sweep finds it
    glob,             \* a strip_glob call: its arguments and its result
    init_call,        \* an init_run call: its arguments and its outcome
    shells,           \* the shell sessions that write to the Record Store
    records,          \* the Record Store: the record files, oldest first
    isearch           \* an isearch_run call: its argument and its outcome

idx_vars  == <<fs, db, written, pc, keep_json, cd_arg, check_duplicate, dirs,
               root, files, cur, error, ret, db_start, calls, returned,
               removed>>
find_vars == <<query, found>>
vars      == <<fs, db, written, pc, keep_json, cd_arg, check_duplicate, dirs,
               root, files, cur, error, ret, db_start, calls, returned,
               removed, query, found, staged, glob, init_call, shells,
               records, isearch>>
\* what neither the indexer nor the finder touches
glob_vars    == <<glob>>
init_vars    == <<init_call>>
session_vars == <<shells, records>>
rest_vars    == <<staged, glob, init_call, shells, records, isearch>>

(***************************************************************************)
(* Bounds                                                                  *)
(***************************************************************************)
MaxRuns == 2          \* index_run calls in one behaviour
MaxFingerprint == 2   \* distinct records (content fingerprints)

Runs         == 1..MaxRuns
Fingerprints == 1..MaxFingerprint

(***************************************************************************)
(* Strings                                                                 *)
(***************************************************************************)
\* str.endswith
EndsWith(s, suffix) ==
    /\ Len(s) >= Len(suffix)
    /\ SubSeq(s, Len(s) - Len(suffix) + 1, Len(s)) = suffix

\* os.path.join(root, f) for a relative file name f
PathJoin(r, f) == r \o <<"/">> \o f

DotJson_nodot == <<"j", "s", "o", "n">>
DotJson == <<".", "j", "s", "o", "n">>

(***************************************************************************)
(* The staging tree: a record root with one sub-directory.                 *)
(***************************************************************************)
RecordPath == <<"r">>
CommandDir == <<"r", "/", "c">>

\* os.walk visits the top directory first, then its sub-directory
WalkOrder_toponly == <<RecordPath>>
WalkOrder == <<RecordPath, CommandDir>>

Entry(r, f) == [root |-> r, name |-> f]

AJson == Entry(RecordPath, <<"a", ".", "j", "s", "o", "n">>)
BJson == Entry(CommandDir, <<"b", ".", "j", "s", "o", "n">>)
Notes == Entry(CommandDir, <<"j", "s", "o", "n">>)
Entries == {AJson, BJson, Notes}

JsonPath(e) == PathJoin(e.root, e.name)
IsJson(e)   == EndsWith(JsonPath(e), DotJson)

\* A file holds the JSON text of one record, whole or cut short by a writer
\* that has not finished.
Absent   == [fp |-> 0, complete |-> FALSE]
Contents == [fp : Fingerprints, complete : BOOLEAN]

\* os.listdir order: each directory holds at most one record file, so the
\* order in which a directory is listed does not change what a sweep does
ListOrder == <<AJson, Notes, BJson>>

(***************************************************************************)
(* Python values                                                           *)
(***************************************************************************)
PyNone      == [type |-> "NoneType"]
PyStr(s)    == [type |-> "str", value |-> s]
PyInt(n)    == [type |-> "int", value |-> n]
NotReturned == [type |-> "no value yet"]
NoError     == "no error"

\* --keep-json is declared without action='store_true' (index.py:37-41):
\* keep_json is None when the option is absent, else the string given.
KeepJsonValues == {PyNone, PyStr(""), PyStr("1")}

\* bool(keep_json)
Truthy(v) == v.type = "str" /\ v.value # ""

(***************************************************************************)
(* DataBase.import_json(json_path, check_duplicate), rash/database.py.     *)
(* A file that is gone cannot be opened; a file cut short does not parse   *)
(* and the call fails with MalformedRecord; with check_duplicate a record  *)
(* whose fingerprint has a row is dropped silently; any other record       *)
(* gets a new row.                                                         *)
(***************************************************************************)
HasRow(rows, fp) == \E i \in 1..Len(rows) : rows[i] = fp

ImportJson(rows, content, cd) ==
    IF content = Absent THEN [rows |-> rows, outcome |-> "IOError"]
    ELSE IF ~content.complete
         THEN [rows |-> rows, outcome |-> "MalformedRecord"]
    ELSE IF cd /\ HasRow(rows, content.fp)
         THEN [rows |-> rows, outcome |-> "duplicate"]
    ELSE [rows |-> Append(rows, content.fp), outcome |-> "inserted"]

ImportReturns(outcome) == outcome \in {"inserted", "duplicate"}

(***************************************************************************)
(* index_run(record_path, keep_json, check_duplicate), rash/index.py       *)
(***************************************************************************)
\* index.py:16-17   if keep_json: check_duplicate = True
CheckDuplicateLocal_unforced(kj, cd) == cd
CheckDuplicateLocal_keeponly(kj, cd) == Truthy(kj)
CheckDuplicateLocal(kj, cd) == IF Truthy(kj) THEN TRUE ELSE cd

\* index.py:27      if not keep_json:
RemovesSource_always(kj) == TRUE
RemovesSource(kj) == ~Truthy(kj)

\* index.py:20      db = DataBase(conf.db_path); an exception raised by the
\* constructor leaves index_run before the loop of line 22.
AfterOpen_swallowed(opened) == "walk"
AfterOpen(opened) == IF opened THEN "walk" ELSE "failed"

\* index_run has no return statement: the call evaluates to None, whatever
\* number of rows the sweep added.
IndexRunReturn_count(rows_added) == PyInt(rows_added)
IndexRunReturn(rows_added) == PyNone

\* os.listdir(dir): the entries of dir that exist, in the file system's order
RECURSIVE ListDir(_, _, _)
ListDir(order, tree, dir) ==
    IF order = <<>> THEN <<>>
    ELSE LET e == Head(order)
             rest == ListDir(Tail(order), tree, dir)
         IN IF e.root = dir /\ tree[e] # Absent THEN <<e.name>> \o rest
            ELSE rest

\* The locals of a call that has ended are gone with its frame.
NoDirs  == <<>>
NoRoot  == <<>>
NoFiles == <<>>
NoEntry == Entry(<<>>, <<>>)

Unwind(r) ==
    /\ dirs' = [dirs EXCEPT ![r] = NoDirs]
    /\ root' = [root EXCEPT ![r] = NoRoot]
    /\ files' = [files EXCEPT ![r] = NoFiles]
    /\ cur' = [cur EXCEPT ![r] = NoEntry]

Ended(r)  == pc[r] \in {"done", "failed"}
Active(r) == pc[r] \notin {"idle", "done", "failed"}

TypeOK ==
    /\ fs \in [Entries -> Contents \cup {Absent}]
    /\ db \in Seq(Fingerprints)
    /\ written \subseteq Entries
    /\ pc \in [Runs -> {"idle", "walk", "files", "import", "remove",
                        "done", "failed"}]
    /\ keep_json \in [Runs -> KeepJsonValues]
    /\ cd_arg \in [Runs -> BOOLEAN]
    /\ check_duplicate \in [Runs -> BOOLEAN]
    /\ error \in [Runs -> {NoError, "StoreUnavailable", "MalformedRecord",
                           "IOError", "OSError"}]

(***************************************************************************)
(* The interactive finder, rash/interactive_search.py                      *)
(***************************************************************************)
MaxQueryLen == 5      \* symbols typed into the finder

\* What a keystroke adds to the query: a character, or the name of an
\* option taken as one symbol ("--limit" is an option of the search parser,
\* "--bogus" is not).
OptionNames  == {"--limit", "--bogus"}
QuerySymbols == {"a", "7", "*", " ", "'"} \cup OptionNames

Whitespace == {" ", "\t", "\n"}

\* FinderMultiQueryString.split_str
SplitStr == <<" ">>

\* shlex.split(query): words are separated by white space, a quote opens a
\* section that runs to the next quote, and a section left open at the end
\* of the string raises ValueError("No closing quotation").
RECURSIVE ShlexScan(_, _, _, _, _)
ShlexScan(s, tok, intok, quoted, acc) ==
    IF s = <<>>
    THEN IF quoted THEN [error |-> TRUE, args |-> <<>>]
         ELSE [error |-> FALSE,
               args |-> IF intok THEN Append(acc, tok) ELSE acc]
    ELSE LET c == Head(s) IN
         IF quoted
         THEN IF c = "'" THEN ShlexScan(Tail(s), tok, TRUE, FALSE, acc)
              ELSE ShlexScan(Tail(s), Append(tok, c), TRUE, TRUE, acc)
         ELSE IF c \in Whitespace
              THEN ShlexScan(Tail(s), <<>>, FALSE, FALSE,
                             IF intok THEN Append(acc, tok) ELSE acc)
         ELSE IF c = "'" THEN ShlexScan(Tail(s), tok, TRUE, TRUE, acc)
         ELSE ShlexScan(Tail(s), Append(tok, c), TRUE, FALSE, acc)

ShlexSplit(s) == ShlexScan(s, <<>>, FALSE, FALSE, <<>>)

Contains(s, c) == \E i \in 1..Len(s) : s[i] = c

\* argparse: an argument that starts with the prefix character is an option
\* string, unless it holds a space; the exact name of an option is that
\* option whatever else holds.
LooksLikeOption(tok) ==
    /\ tok # <<>>
    /\ Head(tok) \in OptionNames
    /\ (tok = <<"--limit">> \/ ~Contains(tok, " "))

\* int(tok) of the option's type=int
IsInt(tok) == tok # <<>> /\ \A i \in 1..Len(tok) : tok[i] = "7"

RECURSIVE IntOf(_)
IntOf(tok) ==
    IF Len(tok) = 1 THEN 7 ELSE 10 * IntOf(SubSeq(tok, 1, Len(tok) - 1)) + 7

\* a limit is <<n>>, and <<>> where there is none
NoLimit == <<>>

\* SafeArgumentParser.parse_args(args) with the arguments of
\* search_add_arguments: positional words are the pattern; an error of the
\* parser calls exit, which raises ValueError (interactive_search.py:38-39).
RECURSIVE ParseArgs(_, _, _)
ParseArgs(args, pattern, limit) ==
    IF args = <<>>
    THEN [error |-> FALSE, pattern |-> pattern, limit |-> limit]
    ELSE LET tok == Head(args) IN
         IF ~LooksLikeOption(tok)
         THEN ParseArgs(Tail(args), Append(pattern, tok), limit)
         ELSE IF tok = <<"--limit">>
                 /\ Len(args) >= 2
                 /\ ~LooksLikeOption(args[2])
                 /\ IsInt(args[2])
              THEN ParseArgs(Tail(Tail(args)), pattern, <<IntOf(args[2])>>)
         ELSE [error |-> TRUE, pattern |-> <<>>, limit |-> NoLimit]

\* re.sub(r'\*|.\?|\[[^\]]+\]', split_str, string): at each position the
\* alternatives are tried in order; a position none matches keeps its
\* character.
RECURSIVE ClassEnd(_, _)
ClassEnd(s, i) ==
    IF i > Len(s) THEN 0
    ELSE IF s[i] = "]" THEN i
    ELSE ClassEnd(s, i + 1)

BracketEnd(s) ==
    IF Len(s) >= 3 /\ s[1] = "[" /\ s[2] # "]" THEN ClassEnd(s, 3) ELSE 0

\* the pattern without the character before the question mark
RECURSIVE GlobSub_keepchar(_, _)
GlobSub_keepchar(s, sep) ==
    IF s = <<>> THEN <<>>
    ELSE IF Head(s) \in {"*", "?"} THEN sep \o GlobSub_keepchar(Tail(s), sep)
    ELSE IF BracketEnd(s) > 0
         THEN sep \o GlobSub_keepchar(SubSeq(s, BracketEnd(s) + 1, Len(s)), sep)
    ELSE <<Head(s)>> \o GlobSub_keepchar(Tail(s), sep)

RECURSIVE GlobSub(_, _)
GlobSub(s, sep) ==
    IF s = <<>> THEN <<>>
    ELSE IF Head(s) = "*" THEN sep \o GlobSub(Tail(s), sep)
    ELSE IF Len(s) >= 2 /\ s[1] # "\n" /\ s[2] = "?"
         THEN sep \o GlobSub(SubSeq(s, 3, Len(s)), sep)
    ELSE IF BracketEnd(s) > 0
         THEN sep \o GlobSub(SubSeq(s, BracketEnd(s) + 1, Len(s)), sep)
    ELSE <<Head(s)>> \o GlobSub(Tail(s), sep)

\* str.strip(): white space is removed at both ends
RECURSIVE LStrip(_)
LStrip(s) ==
    IF s # <<>> /\ Head(s) \in Whitespace THEN LStrip(Tail(s)) ELSE s

RECURSIVE RStrip(_)
RStrip(s) ==
    IF s # <<>> /\ s[Len(s)] \in Whitespace
    THEN RStrip(SubSeq(s, 1, Len(s) - 1)) ELSE s

Strip(s) == RStrip(LStrip(s))

\* strip_glob(string, split_str), interactive_search.py:13-31
strip_glob(string, split_str) == Strip(GlobSub(string, split_str))

\* split_str.join(strip_glob(q, split_str) for q in queries)
RECURSIVE JoinStripped(_, _)
JoinStripped(queries, split_str) ==
    IF queries = <<>> THEN <<>>
    ELSE IF Len(queries) = 1 THEN strip_glob(queries[1], split_str)
    ELSE strip_glob(queries[1], split_str) \o split_str
             \o JoinStripped(Tail(queries), split_str)

\* interactive_search.py:64, 74-75: the limit of the search
LargeLimit == 1000
SmallLimit == 50

FinderLimit_swapped(queries) ==
    IF queries = <<>> THEN LargeLimit ELSE SmallLimit
FinderLimit(queries) ==
    IF queries = <<>> THEN SmallLimit ELSE LargeLimit

\* the outcome of one find call: whether it raised, whether it fell back to
\* the plain matcher, whether it ran the search and with which pattern and
\* limit, the limit the query asked for, and the query handed to the matcher
FindIdle ==
    [called |-> FALSE, raised |-> FALSE, fallback |-> FALSE,
     searched |-> FALSE, pattern |-> <<>>, asked |-> NoLimit,
     limit |-> NoLimit, handed |-> <<>>]

\* RashFinder.find(query), interactive_search.py:60-84.  shlex.split is
\* called before the try block, so the ValueError it raises leaves find;
\* the ValueError of the parser is caught and the query goes unchanged to
\* the matcher of the base class.
Find(q) ==
    LET split == ShlexSplit(q) IN
    IF split.error
    THEN [FindIdle EXCEPT !.called = TRUE, !.raised = TRUE]
    ELSE LET kwds == ParseArgs(split.args, <<>>, NoLimit) IN
         IF kwds.error
         THEN [FindIdle EXCEPT !.called = TRUE, !.fallback = TRUE,
                               !.handed = q]
         ELSE [FindIdle EXCEPT !.called = TRUE, !.searched = TRUE,
                               !.pattern = kwds.pattern,
                               !.asked = kwds.limit,
                               !.limit = <<FinderLimit(kwds.pattern)>>,
                               !.handed = JoinStripped(kwds.pattern, SplitStr)]

\* a key adds a symbol to the query and the finder is asked again
Keystroke(c) ==
    /\ Len(query) < MaxQueryLen
    /\ query' = Append(query, c)
    /\ found' = Find(query')
    /\ UNCHANGED idx_vars

\* the last symbol is deleted and the finder is asked again
Backspace ==
    /\ query # <<>>
    /\ query' = SubSeq(query, 1, Len(query) - 1)
    /\ found' = Find(query')
    /\ UNCHANGED idx_vars

InitIndex ==
    /\ fs \in [Entries -> Contents \cup {Absent}]
    /\ fs[Notes] = [fp |-> 1, complete |-> TRUE]
    /\ db = <<>>
    /\ written = {}
    /\ pc = [r \in Runs |-> "idle"]
    /\ keep_json = [r \in Runs |-> PyNone]
    /\ cd_arg = [r \in Runs |-> FALSE]
    /\ check_duplicate = [r \in Runs |-> FALSE]
    /\ dirs = [r \in Runs |-> <<>>]
    /\ root = [r \in Runs |-> <<>>]
    /\ files = [r \in Runs |-> <<>>]
    /\ cur = [r \in Runs |-> NoEntry]
    /\ error = [r \in Runs |-> NoError]
    /\ ret = [r \in Runs |-> NotReturned]
    /\ db_start = [r \in Runs |-> <<>>]
    /\ calls = {}
    /\ returned = {}
    /\ removed = {}

\* index.py:15-20: the call starts, forces check_duplicate and opens the
\* database.
Begin(r, kj, cd, opened) ==
    /\ pc[r] = "idle"
    /\ \A q \in Runs : q < r => pc[q] # "idle"
    /\ keep_json' = [keep_json EXCEPT ![r] = kj]
    /\ cd_arg' = [cd_arg EXCEPT ![r] = cd]
    /\ check_duplicate' = [check_duplicate EXCEPT ![r] = CheckDuplicateLocal(kj, cd)]
    /\ db_start' = [db_start EXCEPT ![r] = db]
    /\ pc' = [pc EXCEPT ![r] = AfterOpen(opened)]
    /\ error' = [error EXCEPT ![r] = IF opened THEN NoError ELSE "StoreUnavailable"]
    /\ dirs' = [dirs EXCEPT ![r] = IF opened THEN WalkOrder ELSE <<>>]
    /\ UNCHANGED <<fs, db, written, root, files, cur, ret, calls,
                   returned, removed>>

\* Sweeps run one after the other.
Start(r, kj, cd, opened) ==
    /\ \A q \in Runs : ~Active(q)
    /\ Begin(r, kj, cd, opened)

\* index.py:22: os.walk yields the next directory with the files it holds now
WalkDir(r) ==
    /\ pc[r] = "walk"
    /\ dirs[r] # <<>>
    /\ root' = [root EXCEPT ![r] = Head(dirs[r])]
    /\ files' = [files EXCEPT ![r] = ListDir(ListOrder, fs, Head(dirs[r]))]
    /\ dirs' = [dirs EXCEPT ![r] = Tail(dirs[r])]
    /\ pc' = [pc EXCEPT ![r] = "files"]
    /\ UNCHANGED <<fs, db, written, keep_json, cd_arg,
                   check_duplicate, cur, error, ret, db_start, calls,
                   returned, removed>>

\* index.py:22: os.walk is exhausted and index_run falls off its end
Return(r) ==
    /\ pc[r] = "walk"
    /\ dirs[r] = <<>>
    /\ pc' = [pc EXCEPT ![r] = "done"]
    /\ ret' = [ret EXCEPT ![r] = IndexRunReturn(Len(db) - Len(db_start[r]))]
    /\ Unwind(r)
    /\ UNCHANGED <<fs, db, written, keep_json, cd_arg,
                   check_duplicate, error, db_start,
                   calls, returned, removed>>

\* index.py:23-25: the next file of the directory, kept if it ends in .json
NextFile(r) ==
    /\ pc[r] = "files"
    /\ IF files[r] = <<>>
       THEN /\ pc' = [pc EXCEPT ![r] = "walk"]
            /\ UNCHANGED <<files, cur>>
       ELSE LET f == Head(files[r])
                json_path == PathJoin(root[r], f)
            IN /\ files' = [files EXCEPT ![r] = Tail(files[r])]
               /\ IF EndsWith(json_path, DotJson)
                  THEN /\ cur' = [cur EXCEPT ![r] = Entry(root[r], f)]
                       /\ pc' = [pc EXCEPT ![r] = "import"]
                  ELSE UNCHANGED <<cur, pc>>
    /\ UNCHANGED <<fs, db, written, keep_json, cd_arg,
                   check_duplicate, dirs, root, error, ret, db_start, calls,
                   returned, removed>>

\* index.py:26-27: db.import_json(json_path, check_duplicate); an exception
\* it raises is not caught and ends index_run.
Import(r) ==
    /\ pc[r] = "import"
    /\ LET res == ImportJson(db, fs[cur[r]], check_duplicate[r])
       IN /\ db' = res.rows
          /\ calls' = calls \cup {[run |-> r, entry |-> cur[r],
                                   check_duplicate |-> check_duplicate[r]]}
          /\ IF ImportReturns(res.outcome)
             THEN /\ returned' = returned \cup {[run |-> r, entry |-> cur[r]]}
                  /\ pc' = [pc EXCEPT ![r] = IF RemovesSource(keep_json[r])
                                             THEN "remove" ELSE "files"]
                  /\ UNCHANGED <<error, dirs, root, files, cur>>
             ELSE /\ pc' = [pc EXCEPT ![r] = "failed"]
                  /\ error' = [error EXCEPT ![r] = res.outcome]
                  /\ Unwind(r)
                  /\ UNCHANGED returned
    /\ UNCHANGED <<fs, written, keep_json, cd_arg, check_duplicate, ret,
                   db_start, removed>>

\* index.py:28: os.remove(json_path); the file system may refuse (OSError),
\* and the exception is not caught.
Remove(r, refused) ==
    /\ pc[r] = "remove"
    /\ IF refused \/ fs[cur[r]] = Absent
       THEN /\ pc' = [pc EXCEPT ![r] = "failed"]
            /\ error' = [error EXCEPT ![r] = "OSError"]
            /\ Unwind(r)
            /\ UNCHANGED <<fs, removed>>
       ELSE /\ fs' = [fs EXCEPT ![cur[r]] = Absent]
            /\ removed' = removed \cup {[run |-> r, entry |-> cur[r]]}
            /\ pc' = [pc EXCEPT ![r] = "files"]
            /\ UNCHANGED <<error, dirs, root, files, cur>>
    /\ UNCHANGED <<db, written, keep_json, cd_arg, check_duplicate, ret,
                   db_start, calls, returned>>

\* A shell hook finishes writing a record file that was cut short.
CompleteWrite(e) ==
    /\ fs[e] # Absent
    /\ ~fs[e].complete
    /\ fs' = [fs EXCEPT ![e] = [fp |-> fs[e].fp, complete |-> TRUE]]
    /\ written' = written \cup {e}
    /\ UNCHANGED <<db, pc, keep_json, cd_arg, check_duplicate, dirs,
                   root, files, cur, error, ret, db_start, calls, returned,
                   removed>>

\* Nothing but the indexer and the finder is in use.
GlobIdle    == [called |-> FALSE, string |-> <<>>, split_str |-> <<>>,
                result |-> <<>>]
InitIdle    == [pc |-> "idle", shell |-> <<>>, no_daemon |-> FALSE,
                ext |-> {}, printed |-> <<>>, error |-> NoError,
                daemon |-> FALSE]
IsearchIdle == [pc |-> "idle", query |-> <<>>, error |-> NoError,
                launched |-> FALSE, finder_query |-> <<>>]

RestIdle ==
    /\ staged = fs
    /\ glob = GlobIdle
    /\ init_call = InitIdle
    /\ shells = <<>>
    /\ records = <<>>
    /\ isearch = IsearchIdle

Init ==
    /\ InitIndex
    /\ query = <<>>
    /\ found = FindIdle
    /\ RestIdle

Next ==
    \/ \E r \in Runs, kj \in KeepJsonValues, cd \in BOOLEAN, opened \in BOOLEAN :
          Start(r, kj, cd, opened) /\ UNCHANGED <<find_vars, rest_vars>>
    \/ \E r \in Runs : WalkDir(r) /\ UNCHANGED <<find_vars, rest_vars>>
    \/ \E r \in Runs : Return(r) /\ UNCHANGED <<find_vars, rest_vars>>
    \/ \E r \in Runs : NextFile(r) /\ UNCHANGED <<find_vars, rest_vars>>
    \/ \E r \in Runs : Import(r) /\ UNCHANGED <<find_vars, rest_vars>>
    \/ \E r \in Runs, refused \in BOOLEAN : Remove(r, refused) /\ UNCHANGED <<find_vars, rest_vars>>
    \/ \E e \in Entries : CompleteWrite(e) /\ UNCHANGED <<find_vars, rest_vars>>

Spec == Init /\ [][Next]_vars

(***************************************************************************)
(* Properties of the indexer                                               *)
(***************************************************************************)
\* the sweep that started last
Latest(r) == pc[r] # "idle" /\ \A q \in Runs : q > r => pc[q] = "idle"

Opened(r) == pc[r] # "idle" /\ error[r] # "StoreUnavailable"

\* number of rows of the Index Store that hold the record fp
RECURSIVE Count(_, _)
Count(rows, fp) ==
    IF rows = <<>> THEN 0
    ELSE (IF Head(rows) = fp THEN 1 ELSE 0) + Count(Tail(rows), fp)

\* the file whose os.remove ended sweep r
RetireFailed(r, e) ==
    /\ error[r] = "OSError"
    /\ [run |-> r, entry |-> e] \in returned
    /\ [run |-> r, entry |-> e] \notin removed

\* C1: when a sweep that keeps the source files (which turns duplicate
\* checking on) follows a sweep that kept them too, over a staging tree no
\* writer touched, the Index Store has the same rows after the second sweep
\* as after the first.
C1_Idempotent ==
    \A r \in Runs :
        ( /\ r > 1
          /\ Ended(r) /\ Latest(r)
          /\ Opened(r) /\ Opened(r - 1)
          /\ Truthy(keep_json[r]) /\ Truthy(keep_json[r - 1])
          /\ written = {} )
        => db = db_start[r]

\* a second sweep has gone over kept files whose records the first sweep
\* ingested, the caller having left check_duplicate off
C1_Witness ==
    /\ pc[1] = "done" /\ pc[2] = "done" /\ Latest(2)
    /\ Truthy(keep_json[1]) /\ Truthy(keep_json[2]) /\ ~cd_arg[2]
    /\ written = {}
    /\ Len(db) = 2
    /\ [run |-> 2, entry |-> AJson] \in returned
    /\ [run |-> 2, entry |-> BJson] \in returned

\* C2: a step deletes a file of the staging tree only if the import_json
\* call of the same sweep for that file has returned, and only in a sweep
\* whose keep_json is not set.
C2_RetireSafe ==
    [][ \A e \in Entries :
          (fs[e] # Absent /\ fs'[e] = Absent) =>
              \E r \in Runs : /\ [run |-> r, entry |-> e] \in returned
                              /\ pc[r] = "remove"
                              /\ ~Truthy(keep_json[r]) ]_vars

\* a sweep has deleted a record file
C2_Witness ==
    \E x \in removed : fs[x.entry] = Absent /\ x \in returned

\* C3: a sweep that met a malformed record file has still passed every
\* other record file of the staging tree to import_json.
C3_FailureIsolated ==
    \A r \in Runs :
        (Ended(r) /\ error[r] = "MalformedRecord") =>
            \A e \in Entries :
                (IsJson(e) /\ fs[e] # Absent) =>
                    \E c \in calls : c.run = r /\ c.entry = e

\* C4: no sweep raises on a record file cut short; the file stays in the
\* staging tree with no row of its own added, and a later sweep over the
\* completed file ingests it.
C4_PartialSafe ==
    /\ \A r \in Runs : error[r] # "MalformedRecord"
    /\ \A c \in calls :
          [run |-> c.run, entry |-> c.entry] \notin returned =>
              \/ fs[c.entry] # Absent
              \/ \E q \in Runs : /\ q > c.run
                                 /\ [run |-> q, entry |-> c.entry] \in returned

\* C5: when os.remove fails after the record was ingested, the sweep ends
\* with the error, the record keeps its row, and the following sweep, asked
\* to check duplicates, adds no second row for it.
C5_RetireFailureKeepsRow ==
    \A r \in Runs : \A e \in Entries :
        (RetireFailed(r, e) /\ fs[e] # Absent) =>
            /\ pc[r] = "failed"
            /\ HasRow(db, fs[e].fp)
            /\ \A q \in Runs :
                  ( /\ q = r + 1 /\ Latest(q) /\ Opened(q)
                    /\ (cd_arg[q] \/ Truthy(keep_json[q])) )
                  => Count(db, fs[e].fp) = Count(db_start[q], fs[e].fp)

\* the sweep after a failed os.remove has gone over the same file again,
\* with check_duplicate passed and keep_json not set
C5_Witness ==
    \E e \in Entries :
        /\ RetireFailed(1, e) /\ fs[e] # Absent
        /\ Latest(2) /\ cd_arg[2] /\ ~Truthy(keep_json[2])
        /\ [run |-> 2, entry |-> e] \in returned

\* C6: every import_json call of a sweep gets check_duplicate = True when
\* the sweep's keep_json is set, and the caller's check_duplicate otherwise.
C6_KeepForcesCheck ==
    \A c \in calls :
        c.check_duplicate =
            (IF Truthy(keep_json[c.run]) THEN TRUE ELSE cd_arg[c.run])

\* import_json was called by a sweep with keep_json set and check_duplicate
\* passed as False, and by a sweep with keep_json given as the empty string
C6_Witness ==
    /\ \E c \in calls : Truthy(keep_json[c.run]) /\ ~cd_arg[c.run]
    /\ \E c \in calls : keep_json[c.run] = PyStr("") /\ cd_arg[c.run]

\* C7 as claimed: a sweep returns the number of rows it added.
C7_ReturnsCount ==
    \A r \in Runs :
        (pc[r] = "done" /\ Latest(r)) =>
            ret[r] = PyInt(Len(db) - Len(db_start[r]))

\* C7 as amended: a sweep that completes returns None, whatever number of
\* rows it added.
C7_ReturnsNone ==
    \A r \in Runs : pc[r] = "done" => ret[r] = PyNone

\* a sweep has completed after adding two rows
C7_Witness ==
    \E r \in Runs :
        pc[r] = "done" /\ Latest(r) /\ Len(db) - Len(db_start[r]) = 2

\* C8: a sweep whose Index Store cannot be opened has failed, has passed no
\* file to import_json and has deleted none.
C8_StoreFailureAborts ==
    \A r \in Runs :
        error[r] = "StoreUnavailable" =>
            /\ pc[r] = "failed"
            /\ \A c \in calls : c.run # r
            /\ \A x \in removed : x.run # r

\* the store could not be opened for a sweep over two well-formed record
\* files, asked to delete its sources
C8_Witness ==
    \E r \in Runs :
        /\ error[r] = "StoreUnavailable" /\ Latest(r)
        /\ ~Truthy(keep_json[r])
        /\ fs[AJson] # Absent /\ fs[AJson].complete
        /\ fs[BJson] # Absent /\ fs[BJson].complete

(***************************************************************************)
(* The finder alone: the staging tree is empty and no sweep runs.          *)
(***************************************************************************)
InitFind ==
    /\ InitIndex
    /\ fs[AJson] = Absent
    /\ fs[BJson] = Absent
    /\ query = <<>>
    /\ found = FindIdle
    /\ RestIdle

NextFind ==
    \/ \E c \in QuerySymbols : Keystroke(c) /\ UNCHANGED rest_vars
    \/ Backspace /\ UNCHANGED rest_vars

SpecFind == InitFind /\ [][NextFind]_vars

\* C9: no find call raises, and a query that does not parse as a
\* structured filter goes unchanged to the plain matcher.
C9_NeverRaises ==
    /\ ~found.raised
    /\ found.fallback => found.handed = query

\* C10 as claimed: the search runs with the large limit when the parsed
\* pattern list is empty and with the small one otherwise.
C10_LimitAsClaimed ==
    found.searched =>
        found.limit = <<IF found.pattern = <<>> THEN LargeLimit ELSE SmallLimit>>

\* C10 as amended: whenever find runs the search, the limit is 50 when the
\* parsed pattern list is empty and 1000 when it is not, whatever limit the
\* query gave.
C10_Limit ==
    found.searched =>
        found.limit = <<IF found.pattern = <<>> THEN SmallLimit ELSE LargeLimit>>

\* the search ran for a query that gives a limit of its own and a pattern
C10_Witness ==
    /\ found.searched
    /\ found.asked = <<7>>
    /\ found.pattern # <<>>
    /\ found.limit = <<LargeLimit>>

(***************************************************************************)
(* strip_glob alone: one call on a string and a separator.                 *)
(***************************************************************************)
MaxGlobLen == 4       \* characters of a drawn strip_glob argument

GlobChars  == {"a", "*", "?", "[", "]", "!", " "}
Separators == {<<" ">>, <<",">>}

\* the strings of at most n characters
RECURSIVE StringsUpTo(_, _)
StringsUpTo(chars, n) ==
    IF n = 0 THEN {<<>>}
    ELSE LET shorter == StringsUpTo(chars, n - 1)
         IN shorter \cup {Append(t, c) : t \in shorter, c \in chars}

\* the examples of the docstring, interactive_search.py:17-24
DocGlobLike == <<"*", "g", "l", "o", "b", "*", "l", "i", "k", "e">>
DocGlobQ    == <<"g", "l", "o", "b", "?">>
DocGlobSeq  == <<"g", "l", "o", "b", "[", "s", "e", "q", "]">>
DocGlobNot  == <<"g", "l", "o", "b", "[", "!", "s", "e", "q", "]">>
DocCases    == {DocGlobLike, DocGlobQ, DocGlobSeq, DocGlobNot}

InitGlob ==
    /\ InitIndex
    /\ fs[AJson] = Absent
    /\ fs[BJson] = Absent
    /\ query = <<>>
    /\ found = FindIdle
    /\ staged = fs
    /\ glob \in [called : {FALSE},
                 string : StringsUpTo(GlobChars, MaxGlobLen) \cup DocCases,
                 split_str : Separators,
                 result : {<<>>}]
    /\ init_call = InitIdle
    /\ shells = <<>>
    /\ records = <<>>
    /\ isearch = IsearchIdle

\* strip_glob(string, split_str) is called
StripGlob ==
    /\ ~glob.called
    /\ glob' = [glob EXCEPT !.called = TRUE,
                            !.result = strip_glob(glob.string, glob.split_str)]
    /\ UNCHANGED <<idx_vars, find_vars, staged, init_call, shells, records,
                   isearch>>

NextGlob == StripGlob

SpecGlob == InitGlob /\ [][NextGlob]_vars

HasChar(s, c) == \E i \in 1..Len(s) : s[i] = c

StartsWith(s, prefix) ==
    Len(s) >= Len(prefix) /\ SubSeq(s, 1, Len(prefix)) = prefix

\* sub occurs in s
Occurs(s, sub) ==
    \E i \in 1..(Len(s) - Len(sub) + 1) :
        SubSeq(s, i, i + Len(sub) - 1) = sub

\* a bracketed class: "[", one character at least, and a later "]"
HasClass(s) ==
    \E i \in 1..Len(s) : \E j \in 1..Len(s) :
        s[i] = "[" /\ j >= i + 2 /\ s[j] = "]"

\* C11: with the separator ' ', strip_glob gives 'glob like' for
\* '*glob*like', 'glo' for 'glob?', and 'glob' for 'glob[seq]' and for
\* 'glob[!seq]'.
C11_DocCases ==
    (glob.called /\ glob.split_str = <<" ">>) =>
        /\ glob.string = DocGlobLike =>
              glob.result = <<"g", "l", "o", "b", " ", "l", "i", "k", "e">>
        /\ glob.string = DocGlobQ => glob.result = <<"g", "l", "o">>
        /\ glob.string = DocGlobSeq => glob.result = <<"g", "l", "o", "b">>
        /\ glob.string = DocGlobNot => glob.result = <<"g", "l", "o", "b">>

\* strip_glob('glob?') has been called with the separator ' '
C11_Witness ==
    /\ glob.called
    /\ glob.split_str = <<" ">>
    /\ glob.string = DocGlobQ
    /\ glob.result = <<"g", "l", "o">>

\* C12: the result of strip_glob holds no '*', no '?' and no bracketed
\* class.
C12_NoGlobLeft ==
    glob.called =>
        /\ ~HasChar(glob.result, "*")
        /\ ~HasChar(glob.result, "?")
        /\ ~HasClass(glob.result)

\* C13: the result of strip_glob neither starts nor ends with the
\* separator, and a run of glob characters leaves one separator, not two.
C13_Trimmed ==
    (glob.called /\ glob.result # <<>>) =>
        /\ ~StartsWith(glob.result, glob.split_str)
        /\ ~EndsWith(glob.result, glob.split_str)
        /\ ~Occurs(glob.string, glob.split_str) =>
              ~Occurs(glob.result, glob.split_str \o glob.split_str)

(***************************************************************************)
(* init_run(shell, no_daemon), rash/init.py                                *)
(***************************************************************************)
MaxShellLen == 4      \* characters of a drawn --shell argument

ShellChars == {"/", "z", "s", "h"}

\* os.path.sep
PathSep == "/"

\* shell.rsplit(os.path.sep, 1)[-1]: what follows the last separator
ShellName_whole(shell) == shell
RECURSIVE ShellName(_)
ShellName(shell) ==
    IF shell = <<>> THEN <<>>
    ELSE IF shell[Len(shell)] = PathSep THEN <<>>
    ELSE Append(ShellName(SubSeq(shell, 1, Len(shell) - 1)),
                shell[Len(shell)])

\* os.path.dirname(__file__) of rash/init.py
RashDir == <<"r", "a", "s", "h">>

\* find_init: os.path.join(rash_dir, 'ext', 'rash.{0}'.format(name))
ScriptPath(name) ==
    PathJoin(PathJoin(RashDir, <<"e", "x", "t">>),
             <<"r", "a", "s", "h", ".">> \o name)

find_init(shell) == ScriptPath(ShellName(shell))

\* the shells an init script may exist for
Zsh == <<"z", "s", "h">>
Sh  == <<"s", "h">>

\* os.path.exists(init_file), ext being the shells that have a script
Exists(path, ext) == \E name \in ext : path = ScriptPath(name)

\* init.py:39-41   if False:  # not no_daemon:
StartsDaemon(no_daemon) == FALSE

\* --shell defaults to os.environ.get('SHELL'), which is None when the
\* variable is not set
ShellValues ==
    {PyNone} \cup {PyStr(t) : t \in StringsUpTo(ShellChars, MaxShellLen)}

InitInit ==
    /\ InitIndex
    /\ fs[AJson] = Absent
    /\ fs[BJson] = Absent
    /\ query = <<>>
    /\ found = FindIdle
    /\ staged = fs
    /\ glob = GlobIdle
    /\ init_call \in [pc : {"idle"}, shell : ShellValues,
                      no_daemon : BOOLEAN, ext : SUBSET {Zsh, Sh},
                      printed : {<<>>}, error : {NoError},
                      daemon : {FALSE}]
    /\ shells = <<>>
    /\ records = <<>>
    /\ isearch = IsearchIdle

\* init_run, init.py:13-41: None has no rsplit; the path of the script is
\* printed if the script exists, RuntimeError is raised if not; the daemon
\* is started under `if False`.
InitRun ==
    /\ init_call.pc = "idle"
    /\ init_call' =
          IF init_call.shell = PyNone
          THEN [init_call EXCEPT !.pc = "failed", !.error = "AttributeError"]
          ELSE LET init_file == find_init(init_call.shell.value) IN
               IF Exists(init_file, init_call.ext)
               THEN [init_call EXCEPT
                        !.pc = "done",
                        !.printed = <<init_file>>,
                        !.daemon = StartsDaemon(init_call.no_daemon)]
               ELSE [init_call EXCEPT !.pc = "failed",
                                      !.error = "RuntimeError"]
    /\ UNCHANGED <<idx_vars, find_vars, staged, glob, shells, records,
                   isearch>>

NextInit == InitRun

SpecInit == InitInit /\ [][NextInit]_vars

\* b is what is left of s once the directory part, up to the last
\* separator, is dropped
IsBaseName(s, b) ==
    \E i \in 0..Len(s) :
        /\ b = SubSeq(s, i + 1, Len(s))
        /\ ~HasChar(b, PathSep)
        /\ (i = 0 \/ s[i] = PathSep)

\* an init script exists for the base name of the shell
Supported(c) ==
    /\ c.shell # PyNone
    /\ \E b \in c.ext : IsBaseName(c.shell.value, b)

\* C14: init_run ends without error and prints the path of the init script
\* when a script exists for the base name of the shell; for any other shell
\* it ends with an error and prints nothing.
C14_ShellSupport ==
    init_call.pc # "idle" =>
        IF Supported(init_call)
        THEN /\ init_call.pc = "done"
             /\ init_call.error = NoError
             /\ \E b \in init_call.ext :
                   /\ IsBaseName(init_call.shell.value, b)
                   /\ init_call.printed = <<ScriptPath(b)>>
        ELSE /\ init_call.pc = "failed"
             /\ init_call.error # NoError
             /\ init_call.printed = <<>>

\* init_run has printed the script of a shell given with a directory part
C14_Witness ==
    /\ init_call.pc = "done"
    /\ HasChar(init_call.shell.value, PathSep)
    /\ init_call.printed = <<ScriptPath(Zsh)>>

\* C16: when init_run succeeds the daemon has been started if no_daemon is
\* false, and has not been started if no_daemon is true.
C16_DaemonByDefault ==
    init_call.pc = "done" => (init_call.daemon <=> ~init_call.no_daemon)

(***************************************************************************)
(* Shell sessions writing to the Record Store.  The shell hooks (rash/ext) *)
(* and the record command are modelled from the data model: an init        *)
(* record on start, a command record after each command, an exit record    *)
(* on exit, all with the session id the session generated when it started. *)
(***************************************************************************)
MaxShells   == 2      \* shell sessions
MaxCommands == 1      \* commands run in one session

ShellIds == 1..MaxShells

\* shells that record when a command starts, and shells that cannot
ShellKinds == {"zsh", "sh"}

NoSession == 0

CountKind(recs, kind) ==
    Cardinality({i \in 1..Len(recs) : recs[i].kind = kind})

\* a token no other session has: one more than the sessions started so far
SessionId_shared(recs) == 1
SessionId(recs) == CountKind(recs, "init") + 1

InitRecord(sid, w) ==
    [kind |-> "init", session_id |-> sid, writer |-> w,
     start |-> TRUE, stop |-> FALSE, environ |-> {"HOST"}]

ExitRecord(sid, w) ==
    [kind |-> "exit", session_id |-> sid, writer |-> w,
     start |-> FALSE, stop |-> TRUE, environ |-> {}]

CommandRecord(sid, w, kind) ==
    [kind |-> "command", session_id |-> sid, writer |-> w,
     start |-> (kind = "zsh"), stop |-> TRUE, environ |-> {"PATH"}]

NewShell == [state |-> "new", kind |-> "sh", session_id |-> NoSession,
             commands |-> 0]

InitSession ==
    /\ InitIndex
    /\ fs[AJson] = Absent
    /\ fs[BJson] = Absent
    /\ query = <<>>
    /\ found = FindIdle
    /\ staged = fs
    /\ glob = GlobIdle
    /\ init_call = InitIdle
    /\ shells = [i \in ShellIds |-> NewShell]
    /\ records = <<>>
    /\ isearch = IsearchIdle

\* the shell sources the init script: the session starts
SessionInit(i, kind) ==
    /\ shells[i].state = "new"
    /\ LET sid == SessionId(records)
       IN /\ shells' = [shells EXCEPT ![i] = [state |-> "running",
                                              kind |-> kind,
                                              session_id |-> sid,
                                              commands |-> 0]]
          /\ records' = Append(records, InitRecord(sid, i))
    /\ UNCHANGED <<idx_vars, find_vars, staged, glob, init_call, isearch>>

\* the hook that runs after a command
Postexec(i) ==
    /\ shells[i].state = "running"
    /\ shells[i].commands < MaxCommands
    /\ shells' = [shells EXCEPT ![i].commands = @ + 1]
    /\ records' = Append(records,
                         CommandRecord(shells[i].session_id, i,
                                       shells[i].kind))
    /\ UNCHANGED <<idx_vars, find_vars, staged, glob, init_call, isearch>>

\* the shell exits
SessionExit(i) ==
    /\ shells[i].state = "running"
    /\ shells' = [shells EXCEPT ![i].state = "exited"]
    /\ records' = Append(records, ExitRecord(shells[i].session_id, i))
    /\ UNCHANGED <<idx_vars, find_vars, staged, glob, init_call, isearch>>

NextSession ==
    \/ \E i \in ShellIds, kind \in ShellKinds : SessionInit(i, kind)
    \/ \E i \in ShellIds : Postexec(i)
    \/ \E i \in ShellIds : SessionExit(i)

SpecSession == InitSession /\ [][NextSession]_vars

RecordsOf(kind, sid) ==
    {k \in 1..Len(records) :
        records[k].kind = kind /\ records[k].session_id = sid}

\* C15: a session that was initialised and has exited has left exactly one
\* init record and exactly one exit record with its session id; the init
\* record has 'start' and no 'stop', the exit record has 'stop', no 'start'
\* and an empty environ; every command record the session wrote carries
\* the same session id.
C15_SessionBracket ==
    \A i \in ShellIds :
        shells[i].state = "exited" =>
            LET sid == shells[i].session_id IN
            /\ Cardinality(RecordsOf("init", sid)) = 1
            /\ Cardinality(RecordsOf("exit", sid)) = 1
            /\ \A k \in RecordsOf("init", sid) :
                  /\ records[k].writer = i
                  /\ records[k].start /\ ~records[k].stop
            /\ \A k \in RecordsOf("exit", sid) :
                  /\ records[k].writer = i
                  /\ records[k].stop /\ ~records[k].start
                  /\ records[k].environ = {}
            /\ \A k \in 1..Len(records) :
                  (records[k].kind = "command" /\ records[k].writer = i)
                      => records[k].session_id = sid

\* two sessions have exited, each after one command
C15_Witness ==
    /\ \A i \in {1, 2} : shells[i].state = "exited" /\ shells[i].commands = 1
    /\ shells[1].session_id # shells[2].session_id

(***************************************************************************)
(* Sweeps that run at the same time over one staging tree: a sweep may     *)
(* start while another is under way.  No writer is active, every file is   *)
(* whole, the store opens and the file system refuses no deletion, so a    *)
(* sweep can only fail on what another sweep did.                          *)
(***************************************************************************)
InitConc ==
    /\ InitIndex
    /\ \A e \in Entries : fs[e] = Absent \/ fs[e].complete
    /\ query = <<>>
    /\ found = FindIdle
    /\ RestIdle

NextConc ==
    \/ \E r \in Runs, kj \in KeepJsonValues, cd \in BOOLEAN :
          Begin(r, kj, cd, TRUE) /\ UNCHANGED <<find_vars, rest_vars>>
    \/ \E r \in Runs : WalkDir(r) /\ UNCHANGED <<find_vars, rest_vars>>
    \/ \E r \in Runs : Return(r) /\ UNCHANGED <<find_vars, rest_vars>>
    \/ \E r \in Runs : NextFile(r) /\ UNCHANGED <<find_vars, rest_vars>>
    \/ \E r \in Runs : Import(r) /\ UNCHANGED <<find_vars, rest_vars>>
    \/ \E r \in Runs : Remove(r, FALSE) /\ UNCHANGED <<find_vars, rest_vars>>

SpecConc == InitConc /\ [][NextConc]_vars

\* C17: when every sweep checks duplicates, no record has two rows and no
\* sweep has failed on a file another sweep deleted.
C17_AtMostOnce ==
    (\A r \in Runs : pc[r] # "idle" => check_duplicate[r]) =>
        /\ \A fp \in Fingerprints : Count(db, fp) <= 1
        /\ \A r \in Runs : error[r] \notin {"IOError", "OSError"}

(***************************************************************************)
(* Sweeps over a staging tree that no writer touches: every record file    *)
(* is whole.  A call of index_run that has started keeps running until it  *)
(* returns or an exception leaves it.                                      *)
(***************************************************************************)
InitSweep ==
    /\ InitIndex
    /\ \A e \in Entries : fs[e] = Absent \/ fs[e].complete
    /\ query = <<>>
    /\ found = FindIdle
    /\ RestIdle

RunStep(r) ==
    \/ WalkDir(r)
    \/ Return(r)
    \/ NextFile(r)
    \/ Import(r)
    \/ \E refused \in BOOLEAN : Remove(r, refused)

NextSweep ==
    \/ \E r \in Runs, kj \in KeepJsonValues, cd \in BOOLEAN, opened \in BOOLEAN :
          Start(r, kj, cd, opened) /\ UNCHANGED <<find_vars, rest_vars>>
    \/ \E r \in Runs : RunStep(r) /\ UNCHANGED <<find_vars, rest_vars>>

SpecSweep ==
    /\ InitSweep
    /\ [][NextSweep]_vars
    /\ WF_vars(\E r \in Runs : RunStep(r) /\ UNCHANGED <<find_vars, rest_vars>>)

\* the record files under the staging root when sweep r starts
StagedFor(r) ==
    {e \in Entries : /\ IsJson(e)
                     /\ staged[e] # Absent
                     /\ \A q \in Runs :
                           q < r => [run |-> q, entry |-> e] \notin removed}

CallsOf(r) == {c.entry : c \in {d \in calls : d.run = r}}

\* C18: a sweep that has started ends; it never calls import_json a second
\* time for a file; a sweep that met no failure has called import_json for
\* exactly the record files that were staged when it started, and if it
\* does not keep the sources no .json file is left and every staged record
\* has a row.
C18_SweepCompletes ==
    /\ \A r \in Runs : (pc[r] # "idle") ~> Ended(r)
    /\ [][\A r \in Runs :
            (pc[r] # "import" /\ pc'[r] = "import") => cur'[r] \notin CallsOf(r)]_vars
    /\ [](\A r \in Runs :
            pc[r] = "done" =>
               /\ CallsOf(r) = StagedFor(r)
               /\ \A e \in StagedFor(r) : [run |-> r, entry |-> e] \in returned
               /\ (Latest(r) /\ ~Truthy(keep_json[r])) =>
                     \A e \in Entries :
                        IsJson(e) =>
                           /\ fs[e] = Absent
                           /\ staged[e] # Absent => HasRow(db, staged[e].fp))

C18_Witness ==
    \E r \in Runs :
        /\ pc[r] = "done"
        /\ ~Truthy(keep_json[r])
        /\ StagedFor(r) = {AJson, BJson}
        /\ fs[AJson] = Absent
        /\ fs[BJson] = Absent
        /\ HasRow(db, staged[BJson].fp)

(***************************************************************************)
(* Files that are not record files                                         *)
(***************************************************************************)
\* C19: the file r/c/json, whose path does not end in ".json", is never
\* handed to import_json and never removed, whatever keep_json is.
C19_OnlyJsonTouched ==
    /\ \A c \in calls : c.entry # Notes
    /\ \A x \in removed : x.entry # Notes
    /\ fs[Notes] = staged[Notes]
    /\ fs[Notes] # Absent

C19_Witness ==
    /\ \E r \in Runs :
          /\ pc[r] = "done"
          /\ ~Truthy(keep_json[r])
          /\ [run |-> r, entry |-> BJson] \in removed
    /\ \E r \in Runs :
          /\ pc[r] = "done"
          /\ Truthy(keep_json[r])
          /\ BJson \in CallsOf(r)
    /\ fs[Notes] # Absent

(***************************************************************************)
(* rash isearch, rash/isearch.py                                           *)
(***************************************************************************)
MaxIsearchLen == 3     \* symbols of the query given on the command line

IsearchSymbols == {"a", " ", ".", "--cwd"}

\* isearch.py:34    default='--cwd . '
DefaultQuery == <<"--cwd", " ", ".", " ">>

\* isearch.py:33-35: the positional `query` is optional (nargs='?')
Argvs == {<<>>} \cup {<<q>> : q \in StringsUpTo(IsearchSymbols, MaxIsearchLen)}

QueryOf(argv) == IF argv = <<>> THEN DefaultQuery ELSE argv[1]

\* interactive_search.py:87    def launch_isearch(conf):
LaunchIsearchParams == <<"conf">>

\* Python binds a call to a signature without * or **: positional arguments
\* fill the parameters from the left, a keyword must name a parameter that
\* is still free, and every parameter must end up bound; else TypeError.
CallBinds(params, npos, keywords) ==
    /\ npos <= Len(params)
    /\ \A k \in keywords : \E i \in (npos + 1)..Len(params) : params[i] = k
    /\ \A i \in (npos + 1)..Len(params) : params[i] \in keywords

\* interactive_search.py:87-103: Percol is built with the finder class and
\* the actions; no query is handed to it.
LaunchIsearch(state) ==
    [state EXCEPT !.pc = "done", !.launched = TRUE, !.finder_query = <<>>]

InitIsearch ==
    /\ InitIndex
    /\ fs[AJson] = Absent
    /\ fs[BJson] = Absent
    /\ query = <<>>
    /\ found = FindIdle
    /\ staged = fs
    /\ glob = GlobIdle
    /\ init_call = InitIdle
    /\ shells = <<>>
    /\ records = <<>>
    /\ isearch = IsearchIdle

\* isearch.py:32-35: the command line is parsed into the argument of
\* isearch_run
IsearchArgs(argv) ==
    /\ isearch.pc = "idle"
    /\ isearch' = [isearch EXCEPT !.pc = "parsed", !.query = QueryOf(argv)]
    /\ UNCHANGED <<idx_vars, find_vars, staged, glob, init_call, shells,
                   records>>

\* isearch.py:1-29: launch_isearch(ConfigStore(), query=query)
IsearchRun ==
    /\ isearch.pc = "parsed"
    /\ isearch' =
          IF CallBinds(LaunchIsearchParams, 1, {"query"})
          THEN LaunchIsearch(isearch)
          ELSE [isearch EXCEPT !.pc = "failed", !.error = "TypeError"]
    /\ UNCHANGED <<idx_vars, find_vars, staged, glob, init_call, shells,
                   records>>

NextIsearch ==
    \/ \E argv \in Argvs : IsearchArgs(argv)
    \/ IsearchRun

SpecIsearch == InitIsearch /\ [][NextIsearch]_vars

\* C20: once isearch_run has been called, the finder is running and holds
\* the query that was supplied.
C20_QueryReachesFinder ==
    isearch.pc \in {"done", "failed"} =>
        /\ isearch.error = NoError
        /\ isearch.launched
        /\ isearch.finder_query = isearch.query

====
